---- MODULE Spec2Model ----
(***************************************************************************)
(* Vector2 of src/algorithms/vector2.rs: a pair of IEEE-754 binary32       *)
(* fields with component-wise operators, lerp, move_towards, normalize     *)
(* and indexed access.                                                     *)
(*                                                                         *)
(* An f32 is modelled bit-exactly as a record [k, s, m, e]:                *)
(*   k = "nan"                       a NaN (one NaN, payload ignored)      *)
(*   k = "inf", s                    +infinity (s = 0) / -infinity (s = 1) *)
(*   k = "fin", s, m, e              (-1)^s * m * 2^e, canonical:          *)
(*        normal     2^23 <= m < 2^24, -149 <= e <= 104                    *)
(*        subnormal  0 <  m < 2^23,    e = -149                            *)
(*        zero       m = 0,            e = -149   (s keeps the sign of 0)  *)
(* Every arithmetic operator rounds to nearest, ties to even, as the       *)
(* hardware does.                                                          *)
(***************************************************************************)
EXTENDS Integers, Sequences, FiniteSets, TLC

(***************************************************************************)
(* f32 format                                                              *)
(***************************************************************************)
Two23 == 2^23
Two24 == 2^24
EMin == 0 - 149
EMax == 127 - 23

NaN == [k |-> "nan", s |-> 0, m |-> 0, e |-> 0]
Inf(sg) == [k |-> "inf", s |-> sg, m |-> 0, e |-> 0]
Zero(sg) == [k |-> "fin", s |-> sg, m |-> 0, e |-> EMin]

IsNaN(a) == a.k = "nan"
IsInf(a) == a.k = "inf"
IsFin(a) == a.k = "fin"
IsZero(a) == a.k = "fin" /\ a.m = 0

Xor(p, q) == IF p = q THEN 0 ELSE 1
Max(p, q) == IF p >= q THEN p ELSE q
Min(p, q) == IF p <= q THEN p ELSE q

\* number of significant bits of 0 <= M < 2^30
BitLen(M) == CHOOSE n \in 0..30 : M < 2^n /\ (n = 0 \/ M >= 2^(n - 1))

\* Round (-1)^sg * (M + f) * 2^E to f32, where 0 < M < 2^30 and 0 <= f < 1
\* with f # 0 iff sticky (sticky is only ever set when M has 25 bits or more).
Round(sg, M, E, sticky) ==
    LET n == BitLen(M)
        shift == Max(n - 24, EMin - E)
    IN  IF shift <= 0
        THEN LET up == Min(24 - n, E - EMin)
             IN  IF E - up > EMax THEN Inf(sg)
                 ELSE [k |-> "fin", s |-> sg, m |-> M * 2^up, e |-> E - up]
        ELSE IF shift >= 32
        THEN Zero(sg)
        ELSE LET q == IF shift >= 31 THEN 0 ELSE M \div 2^shift
                 r == IF shift >= 31 THEN M ELSE M % 2^shift
                 half == 2^(shift - 1)
                 roundUp == \/ r > half
                            \/ r = half /\ (sticky \/ q % 2 = 1)
                 q1 == IF roundUp THEN q + 1 ELSE q
                 m1 == IF q1 = Two24 THEN Two23 ELSE q1
                 e1 == IF q1 = Two24 THEN E + shift + 1 ELSE E + shift
             IN  IF e1 > EMax THEN Inf(sg)
                 ELSE [k |-> "fin", s |-> sg, m |-> m1, e |-> e1]

\* the f32 nearest to (-1)^sg * M * 2^E, for literals
F(sg, M, E) == IF M = 0 THEN Zero(sg) ELSE Round(sg, M, E, FALSE)

\* nonzero finite a with its mantissa shifted up to 24 bits: <<m, e>>
Norm(a) == LET up == 24 - BitLen(a.m) IN <<a.m * 2^up, a.e - up>>

(***************************************************************************)
(* f32 comparison: every comparison with a NaN is false, -0 equals +0      *)
(***************************************************************************)
\* |a| < |b| for finite a, b (canonical form orders by exponent, then mantissa)
MagLt(a, b) == a.e < b.e \/ (a.e = b.e /\ a.m < b.m)

f32_lt(a, b) ==
    IF IsNaN(a) \/ IsNaN(b) THEN FALSE
    ELSE IF IsZero(a) /\ IsZero(b) THEN FALSE
    ELSE IF a.s # b.s THEN a.s = 1
    ELSE IF IsInf(a) \/ IsInf(b)
         THEN IF a.s = 0 THEN ~IsInf(a) /\ IsInf(b) ELSE IsInf(a) /\ ~IsInf(b)
    ELSE IF a.s = 0 THEN MagLt(a, b) ELSE MagLt(b, a)

f32_eq(a, b) ==
    IF IsNaN(a) \/ IsNaN(b) THEN FALSE
    ELSE IF IsZero(a) /\ IsZero(b) THEN TRUE
    ELSE a = b

f32_le(a, b) == f32_lt(a, b) \/ f32_eq(a, b)
f32_gt(a, b) == f32_lt(b, a)

(***************************************************************************)
(* f32 arithmetic                                                          *)
(***************************************************************************)
f32_neg(a) == IF IsNaN(a) THEN NaN ELSE [a EXCEPT !.s = 1 - a.s]

\* a + b for finite nonzero a, b with |a| >= |b|
AddOrdered(a, b) ==
    LET d == a.e - b.e
        L == Min(d, 5)
        A == a.m * 2^L
        rest == d - L
        B == IF rest >= 30 THEN 0 ELSE b.m \div 2^rest
        sticky == IF rest >= 30 THEN TRUE ELSE b.m % 2^rest # 0
    IN  IF a.s = b.s
        THEN Round(a.s, A + B, a.e - L, sticky)
        ELSE IF A = B /\ ~sticky THEN Zero(0)
        ELSE IF sticky THEN Round(a.s, A - B - 1, a.e - L, TRUE)
        ELSE Round(a.s, A - B, a.e - L, FALSE)

f32_add(a, b) ==
    IF IsNaN(a) \/ IsNaN(b) THEN NaN
    ELSE IF IsInf(a) THEN (IF IsInf(b) /\ b.s # a.s THEN NaN ELSE a)
    ELSE IF IsInf(b) THEN b
    ELSE IF IsZero(a) /\ IsZero(b) THEN (IF a.s = 1 /\ b.s = 1 THEN Zero(1) ELSE Zero(0))
    ELSE IF IsZero(a) THEN b
    ELSE IF IsZero(b) THEN a
    ELSE IF MagLt(a, b) THEN AddOrdered(b, a) ELSE AddOrdered(a, b)

f32_sub(a, b) == f32_add(a, f32_neg(b))

f32_mul(a, b) ==
    IF IsNaN(a) \/ IsNaN(b) THEN NaN
    ELSE LET sg == Xor(a.s, b.s)
         IN  IF IsInf(a) \/ IsInf(b)
             THEN (IF IsZero(a) \/ IsZero(b) THEN NaN ELSE Inf(sg))
             ELSE IF IsZero(a) \/ IsZero(b) THEN Zero(sg)
             ELSE LET na == Norm(a)
                      nb == Norm(b)
                      a1 == na[1] \div 4096
                      a0 == na[1] % 4096
                      b1 == nb[1] \div 4096
                      b0 == nb[1] % 4096
                      mid == a1 * b0 + a0 * b1
                      lowsum == (mid % 4096) * 4096 + a0 * b0
                      hi == a1 * b1 + mid \div 4096 + lowsum \div Two24
                      lo == lowsum % Two24
                  IN  Round(sg, hi * 64 + lo \div 262144, na[2] + nb[2] + 18,
                            lo % 262144 # 0)

f32_div(a, b) ==
    IF IsNaN(a) \/ IsNaN(b) THEN NaN
    ELSE LET sg == Xor(a.s, b.s)
         IN  IF IsInf(a) THEN (IF IsInf(b) THEN NaN ELSE Inf(sg))
             ELSE IF IsInf(b) THEN Zero(sg)
             ELSE IF IsZero(b) THEN (IF IsZero(a) THEN NaN ELSE Inf(sg))
             ELSE IF IsZero(a) THEN Zero(sg)
             ELSE LET na == Norm(a)
                      nb == Norm(b)
                      d == nb[1]
                      q0 == na[1] \div d
                      r0 == na[1] % d
                      q1 == (r0 * 128) \div d
                      r1 == (r0 * 128) % d
                      q2 == (r1 * 128) \div d
                      r2 == (r1 * 128) % d
                      q3 == (r2 * 128) \div d
                      r3 == (r2 * 128) % d
                      q4 == (r3 * 128) \div d
                      r4 == (r3 * 128) % d
                  IN  Round(sg, (((q0 * 128 + q1) * 128 + q2) * 128 + q3) * 128 + q4,
                            na[2] - nb[2] - 28, r4 # 0)

\* floor(sqrt(M * 4^j)) and whether the root is inexact, two bits of M per step:
\* i counts the pairs of M still to bring down, j the zero pairs after them.
RECURSIVE SqrtBits(_, _, _, _, _)
SqrtBits(q, r, M, i, j) ==
    IF i = 0 /\ j = 0 THEN <<q, r # 0>>
    ELSE LET pair == IF i > 0 THEN (M \div 4^(i - 1)) % 4 ELSE 0
             rr == 4 * r + pair
             t == 4 * q + 1
             i1 == IF i > 0 THEN i - 1 ELSE 0
             j1 == IF i > 0 THEN j ELSE j - 1
         IN  IF rr >= t THEN SqrtBits(2 * q + 1, rr - t, M, i1, j1)
             ELSE SqrtBits(2 * q, rr, M, i1, j1)

f32_sqrt(a) ==
    IF IsNaN(a) THEN NaN
    ELSE IF IsZero(a) THEN a
    ELSE IF a.s = 1 THEN NaN
    ELSE IF IsInf(a) THEN a
    ELSE LET na == Norm(a)
             odd == na[2] % 2 # 0
             M == IF odd THEN 2 * na[1] ELSE na[1]
             E == IF odd THEN na[2] - 1 ELSE na[2]
             root == SqrtBits(0, 0, M, 13, 14)
         IN  Round(0, root[1], (E \div 2) - 14, root[2])

\* f32::clamp(self, min, max)
f32_clamp(x, lo, hi) ==
    LET x1 == IF f32_lt(x, lo) THEN lo ELSE x
    IN  IF f32_gt(x1, hi) THEN hi ELSE x1

(***************************************************************************)
(* Vector2                                                                 *)
(***************************************************************************)
new(x, y) == [x |-> x, y |-> y]
zero == new(Zero(0), Zero(0))
one == new(F(0, 1, 0), F(0, 1, 0))
up == new(Zero(0), F(0, 1, 0))
down == new(Zero(0), F(1, 1, 0))
left == new(F(1, 1, 0), Zero(0))
right == new(F(0, 1, 0), Zero(0))
positive_infinity == new(Inf(0), Inf(0))
negative_infinity == new(Inf(1), Inf(1))

\* #[derive(PartialEq)]: both fields compare equal as f32
eq(a, b) == f32_eq(a.x, b.x) /\ f32_eq(a.y, b.y)

sqr_magnitude(self) == f32_add(f32_mul(self.x, self.x), f32_mul(self.y, self.y))
magnitude(self) == f32_sqrt(sqr_magnitude(self))

\* set with the fields swapped
set_swapped(self, x, y) == [self EXCEPT !.x = y, !.y = x]

set(self, x, y) == [self EXCEPT !.x = x, !.y = y]

\* add with the y field fed from other.x
add_wrong_field(self, other) == new(f32_add(self.x, other.x), f32_add(self.y, other.x))

add(self, other) == new(f32_add(self.x, other.x), f32_add(self.y, other.y))
sub(self, other) == new(f32_sub(self.x, other.x), f32_sub(self.y, other.y))
mul(self, other) == new(f32_mul(self.x, other.x), f32_mul(self.y, other.y))
mul_f32(self, other) == new(f32_mul(self.x, other), f32_mul(self.y, other))
f32_mul_vec(self, other) == new(f32_mul(self, other.x), f32_mul(self, other.y))
div(self, other) == new(f32_div(self.x, other.x), f32_div(self.y, other.y))
div_f32(self, other) == new(f32_div(self.x, other), f32_div(self.y, other))

mul_assign_f32(self, rhs) ==
    [self EXCEPT !.x = f32_mul(self.x, rhs), !.y = f32_mul(self.y, rhs)]
\* mul_assign scaling both fields by sc.x
mul_assign_x_only(self, sc) ==
    [self EXCEPT !.x = f32_mul(self.x, sc.x), !.y = f32_mul(self.y, sc.x)]

mul_assign(self, sc) ==
    [self EXCEPT !.x = f32_mul(self.x, sc.x), !.y = f32_mul(self.y, sc.y)]
div_assign_f32(self, rhs) ==
    [self EXCEPT !.x = f32_div(self.x, rhs), !.y = f32_div(self.y, rhs)]

lerp_unclamped(a, b, t) ==
    new(f32_add(a.x, f32_mul(f32_sub(b.x, a.x), t)),
        f32_add(a.y, f32_mul(f32_sub(b.y, a.y), t)))

\* lerp that forgets to clamp t
lerp_no_clamp(a, b, t) == lerp_unclamped(a, b, t)

\* lerp that clamps t from above only
lerp_clamp_above(a, b, t) ==
    LET t1 == IF f32_gt(t, F(0, 1, 0)) THEN F(0, 1, 0) ELSE t
    IN  lerp_unclamped(a, b, t1)

lerp(a, b, t) ==
    LET t1 == f32_clamp(t, Zero(0), F(0, 1, 0))
    IN  new(f32_add(a.x, f32_mul(f32_sub(b.x, a.x), t1)),
            f32_add(a.y, f32_mul(f32_sub(b.y, a.y), t1)))

\* move_towards without the num == 0 test
move_towards_no_zero_test(current, target, max_distance_delta) ==
    LET vector == sub(target, current)
        num == magnitude(vector)
    IN  IF f32_le(num, max_distance_delta)
        THEN target
        ELSE add(current, mul_f32(div_f32(vector, num), max_distance_delta))

\* move_towards that never snaps to a target within reach
move_towards_no_snap(current, target, max_distance_delta) ==
    LET vector == sub(target, current)
        num == magnitude(vector)
    IN  IF f32_eq(num, Zero(0))
        THEN target
        ELSE add(current, mul_f32(div_f32(vector, num), max_distance_delta))

\* move_towards that treats a negative step as no step
move_towards_no_retreat(current, target, max_distance_delta) ==
    LET vector == sub(target, current)
        num == magnitude(vector)
    IN  IF f32_le(num, max_distance_delta) \/ f32_eq(num, Zero(0))
        THEN target
        ELSE IF f32_lt(max_distance_delta, Zero(0)) THEN current
        ELSE add(current, mul_f32(div_f32(vector, num), max_distance_delta))

move_towards(current, target, max_distance_delta) ==
    LET vector == sub(target, current)
        num == magnitude(vector)
    IN  IF f32_le(num, max_distance_delta) \/ f32_eq(num, Zero(0))
        THEN target
        ELSE add(current, mul_f32(div_f32(vector, num), max_distance_delta))

scale(self, sc) == mul_assign(self, sc)

\* the literal 1E-05f32
NormalizeEps == F(0, 10995116, 0 - 40)

\* normalize with a non-strict threshold
normalize_non_strict(self) ==
    LET num == magnitude(self)
    IN  IF f32_le(NormalizeEps, num) THEN div_assign_f32(self, num) ELSE zero

normalize(self) ==
    LET num == magnitude(self)
    IN  IF f32_gt(num, NormalizeEps) THEN div_assign_f32(self, num) ELSE zero

\* Index / IndexMut: the field an index selects, or a panic
index(self, i) ==
    IF i = 0 THEN [panic |-> FALSE, val |-> self.x]
    ELSE IF i = 1 THEN [panic |-> FALSE, val |-> self.y]
    ELSE [panic |-> TRUE, val |-> Zero(0)]

\* index_mut that takes every index but 0 for y
index_mut_default_y(self, i, c) ==
    IF i = 0 THEN [panic |-> FALSE, vec |-> [self EXCEPT !.x = c]]
    ELSE [panic |-> FALSE, vec |-> [self EXCEPT !.y = c]]

\* v[i] = c: the vector afterwards, or a panic that leaves it as it was
index_mut(self, i, c) ==
    IF i = 0 THEN [panic |-> FALSE, vec |-> [self EXCEPT !.x = c]]
    ELSE IF i = 1 THEN [panic |-> FALSE, vec |-> [self EXCEPT !.y = c]]
    ELSE [panic |-> TRUE, vec |-> self]

(***************************************************************************)
(* Input values                                                            *)
(***************************************************************************)
MaxIndex == 3
MaxOps == 2
MaxSteps == 5

f0 == Zero(0)
fNeg0 == Zero(1)
f1 == F(0, 1, 0)
f2 == F(0, 2, 0)
f3 == F(0, 3, 0)
f4 == F(0, 4, 0)
fHalf == F(0, 1, 0 - 1)
fTiny == F(0, 1, 0 - 30)
fBig == F(0, 1, 24)
fMax == F(0, Two24 - 1, EMax)

\* <<x, y>> arguments of new(x, y)
VecArgs == { <<f0, f0>>, <<f1, f1>>, <<f2, f2>>, <<f1, f2>>, <<f3, f4>>, <<fTiny, f1>>,
             <<NaN, f0>>, <<Inf(0), Inf(1)>>, <<fMax, fMax>>, <<f32_neg(fMax), f1>>,
             <<f0, NormalizeEps>>, <<fNeg0, fHalf>>, <<fBig, f0>>,
             <<F(0, Two23 + 1, 1), f0>> }

Scalars == { NaN, Inf(0), f32_neg(f1), f32_neg(fHalf), f32_neg(fTiny), fNeg0, f0,
             fTiny, fHalf, f1, f2, f3 }

MutArgs == { <<f1, f1>>, <<f3, f4>>, <<f0, NormalizeEps>>, <<fMax, fMax>>, <<NaN, f1>> }
MutScalars == { f0, f2, NaN }
SetArgs == { <<f0, f0>>, <<f1, f2>>, <<NaN, Inf(1)>> }
AssignScalars == { f3, NaN }

MoveArgs == { <<f0, f0>>, <<f1, f1>>, <<f1, f0>>, <<f2, f0>>, <<f3, f4>>, <<f2, f2>>,
              <<fMax, f0>>, <<f32_neg(fMax), f0>> }
MoveDeltas == { fHalf, f1, f2, fTiny, Inf(0), f0, f32_neg(f1), NaN }

(***************************************************************************)
(* State                                                                   *)
(*   v     the vector operated on (self / a / current)                     *)
(*   w     a second vector (other / b / target / scale)                    *)
(*   copy  a copy of v taken when v was constructed                        *)
(*   op    the last operation applied, s, s2, idx its scalar arguments     *)
(*   old   v as it was before the last operation                           *)
(*   res   what the last operation returned                                *)
(*   n     the number of operations applied                                *)
(*   pc    "ready", "done" (a one-shot call returned) or "panicked"        *)
(*   delta the fixed max_distance_delta of a move_towards loop             *)
(***************************************************************************)
VARIABLES v, w, copy, op, s, s2, idx, old, res, n, pc, delta
vars == <<v, w, copy, op, s, s2, idx, old, res, n, pc, delta>>

ResNone == [tag |-> "none", vec |-> zero, val |-> f0]
ResVec(r) == [tag |-> "vec", vec |-> r, val |-> f0]
ResF32(r) == [tag |-> "f32", vec |-> zero, val |-> r]
ResPanic == [tag |-> "panic", vec |-> zero, val |-> f0]

\* let mut v = Vector2::new(x, y); let w = Vector2::new(..); let copy = v;
Start(args) ==
    /\ \E a \in args :
          /\ s = a[1]
          /\ s2 = a[2]
          /\ v = new(a[1], a[2])
    /\ \E b \in args : w = new(b[1], b[2])
    /\ copy = v
    /\ old = v
    /\ op = "new"
    /\ idx = 0
    /\ res = ResNone
    /\ n = 0
    /\ pc = "ready"

\* a value-producing call op(v, w, a) returning r: nothing but the result changes
Returns(name, a, r) ==
    /\ pc = "ready"
    /\ op' = name
    /\ s' = a
    /\ res' = r
    /\ old' = v
    /\ n' = n + 1
    /\ pc' = "done"
    /\ s2' = f0
    /\ UNCHANGED <<v, w, copy, idx, delta>>

(***************************************************************************)
(* Spec: one call of a value-producing function on drawn inputs            *)
(***************************************************************************)
Init == Start(VecArgs) /\ delta = f0

Lerp == \E t \in Scalars : Returns("lerp", t, ResVec(lerp(v, w, t)))
LerpUnclamped == \E t \in Scalars : Returns("lerp_unclamped", t, ResVec(lerp_unclamped(v, w, t)))
MoveTowards == \E d \in Scalars : Returns("move_towards", d, ResVec(move_towards(v, w, d)))
Add == Returns("add", f0, ResVec(add(v, w)))
Sub == Returns("sub", f0, ResVec(sub(v, w)))
Mul == Returns("mul", f0, ResVec(mul(v, w)))
Div == Returns("div", f0, ResVec(div(v, w)))
MulF32 == \E c \in Scalars : Returns("mul_f32", c, ResVec(mul_f32(v, c)))
F32Mul == \E c \in Scalars : Returns("f32_mul", c, ResVec(f32_mul_vec(c, v)))
DivF32 == \E c \in Scalars : Returns("div_f32", c, ResVec(div_f32(v, c)))
Magnitude == Returns("magnitude", f0, ResF32(magnitude(v)))
SqrMagnitude == Returns("sqr_magnitude", f0, ResF32(sqr_magnitude(v)))

Next ==
    \/ Lerp
    \/ LerpUnclamped
    \/ MoveTowards
    \/ Add
    \/ Sub
    \/ Mul
    \/ Div
    \/ MulF32
    \/ F32Mul
    \/ DivF32
    \/ Magnitude
    \/ SqrMagnitude

Spec == Init /\ [][Next]_vars

(***************************************************************************)
(* SpecMut: up to MaxOps mutating operations (and indexed reads) on v      *)
(***************************************************************************)
InitMut == Start(MutArgs) /\ delta = f0

\* a mutating call on v with arguments a, a2, i that leaves v as r
Mutates(name, a, a2, i, r) ==
    /\ pc = "ready"
    /\ n < MaxOps
    /\ op' = name
    /\ s' = a
    /\ s2' = a2
    /\ idx' = i
    /\ old' = v
    /\ v' = r
    /\ res' = ResNone
    /\ n' = n + 1
    /\ UNCHANGED <<w, copy, pc, delta>>

\* an indexed access with index i (and value a) that panics
Panics(name, a, i) ==
    /\ pc = "ready"
    /\ n < MaxOps
    /\ op' = name
    /\ s' = a
    /\ s2' = f0
    /\ idx' = i
    /\ old' = v
    /\ res' = ResPanic
    /\ n' = n + 1
    /\ pc' = "panicked"
    /\ UNCHANGED <<v, w, copy, delta>>

Set == \E a \in SetArgs : Mutates("set", a[1], a[2], 0, set(v, a[1], a[2]))
Scale == Mutates("scale", f0, f0, 0, scale(v, w))
Normalize == Mutates("normalize", f0, f0, 0, normalize(v))
MulAssignF32 == \E c \in MutScalars : Mutates("mul_assign_f32", c, f0, 0, mul_assign_f32(v, c))
MulAssign == Mutates("mul_assign", f0, f0, 0, mul_assign(v, w))
DivAssignF32 == \E c \in MutScalars : Mutates("div_assign_f32", c, f0, 0, div_assign_f32(v, c))
AssignX == \E c \in AssignScalars : Mutates("assign_x", c, f0, 0, [v EXCEPT !.x = c])
AssignY == \E c \in AssignScalars : Mutates("assign_y", c, f0, 0, [v EXCEPT !.y = c])

IndexMut ==
    \E i \in 0..MaxIndex : \E c \in AssignScalars :
        LET r == index_mut(v, i, c)
        IN  IF r.panic THEN Panics("index_mut", c, i)
            ELSE Mutates("index_mut", c, f0, i, r.vec)

Index ==
    \E i \in 0..MaxIndex :
        LET r == index(v, i)
        IN  IF r.panic THEN Panics("index", f0, i)
            ELSE /\ pc = "ready"
                 /\ n < MaxOps
                 /\ op' = "index"
                 /\ s' = f0
                 /\ s2' = f0
                 /\ idx' = i
                 /\ old' = v
                 /\ res' = ResF32(r.val)
                 /\ n' = n + 1
                 /\ UNCHANGED <<v, w, copy, pc, delta>>

NextMut ==
    \/ Set
    \/ Scale
    \/ Normalize
    \/ MulAssignF32
    \/ MulAssign
    \/ DivAssignF32
    \/ AssignX
    \/ AssignY
    \/ IndexMut
    \/ Index

SpecMut == InitMut /\ [][NextMut]_vars

(***************************************************************************)
(* SpecMove: v = move_towards(v, w, delta) repeated with a fixed delta     *)
(***************************************************************************)
InitMove == Start(MoveArgs) /\ delta \in MoveDeltas

MoveStep ==
    /\ pc = "ready"
    /\ n < MaxSteps
    /\ op' = "move_towards"
    /\ s' = delta
    /\ s2' = f0
    /\ old' = v
    /\ v' = move_towards(v, w, delta)
    /\ res' = ResVec(v')
    /\ n' = n + 1
    /\ UNCHANGED <<w, copy, idx, pc, delta>>

NextMove == MoveStep

SpecMove == InitMove /\ [][NextMove]_vars

(***************************************************************************)
(* Properties of the value-producing functions (checked under Spec)        *)
(***************************************************************************)
IsFinVec(a) == IsFin(a.x) /\ IsFin(a.y)
HasNaN(a) == IsNaN(a.x) \/ IsNaN(a.y)
\* equal as f32, or NaN on both sides
SameF32(x, y) == f32_eq(x, y) \/ (IsNaN(x) /\ IsNaN(y))
SameVec(a, b) == SameF32(a.x, b.x) /\ SameF32(a.y, b.y)
\* lo <= x <= hi or hi <= x <= lo
Between(x, p, q) == (f32_le(p, x) /\ f32_le(x, q)) \/ (f32_le(q, x) /\ f32_le(x, p))
Dist(a, b) == magnitude(sub(a, b))

\* the state after move_towards(v, w, s): delta, dist and the snap condition
MtDelta == sub(w, v)
MtDist == magnitude(MtDelta)
MtSnap == f32_le(MtDist, s) \/ f32_eq(MtDist, f0)
MtStep == add(v, mul_f32(div_f32(MtDelta, MtDist), s))

NearOneLo == F(0, Two24 - 8, 0 - 24)
NearOneHi == F(0, Two23 + 4, 0 - 23)

\* the step move_towards adds to current, delta/dist * max_distance_delta, and |max_distance_delta|
MtAdded == mul_f32(div_f32(MtDelta, MtDist), s)
MtAbsStep == IF s.s = 1 THEN f32_neg(s) ELSE s
\* finite current and max_distance_delta, finite dist, and the stepping branch taken
MtFiniteStep == IsFinVec(v) /\ IsFin(s) /\ IsFin(MtDist) /\ ~MtSnap
\* smallest normal f32: squares at or above it have not lost precision to underflow
MinNormal == F(0, 1, 0 - 126)

C4_Original ==
    /\ (op = "lerp" /\ f32_le(s, f0) /\ IsFinVec(v) /\ IsFinVec(w)) => eq(res.vec, v)
    /\ (op = "lerp" /\ f32_le(f1, s) /\ IsFinVec(v) /\ IsFinVec(w)) => eq(res.vec, w)
    /\ (op = "lerp" /\ f32_le(f0, s) /\ f32_le(s, f1)) => res.vec = lerp_unclamped(v, w, s)
    /\ (op = "lerp_unclamped" /\ s = f2)
          => res.vec = add(v, mul_f32(sub(w, v), f2))

\* C4 amended: for t <= 0 lerp(a, b, t) is a + (b - a) * 0, which == a when a and
\* b - a are finite; for t >= 1 it is a + (b - a) as computed in f32, which is b
\* only up to the rounding of b - a (exactly (2,2) for a = (1,1), b = (2,2));
\* lerp_unclamped applies a + (b - a) * t unclamped (t = 2 gives a + (b - a) * 2)
\* and agrees with lerp on [0, 1].
C4_LerpEnds ==
    /\ (op = "lerp" /\ f32_le(s, f0) /\ IsFinVec(v) /\ IsFinVec(sub(w, v)))
          => eq(res.vec, v)
    /\ (op = "lerp" /\ f32_le(s, f0)) => SameVec(res.vec, lerp_unclamped(v, w, f0))
    /\ (op = "lerp" /\ f32_le(f1, s)) => res.vec = add(v, sub(w, v))
    /\ (op = "lerp" /\ f32_le(f1, s) /\ v = one /\ w = new(f2, f2)) => eq(res.vec, w)
    /\ (op = "lerp" /\ f32_le(f0, s) /\ f32_le(s, f1)) => res.vec = lerp_unclamped(v, w, s)
    /\ (op = "lerp_unclamped" /\ s = f2)
          => res.vec = add(v, mul_f32(sub(w, v), f2))

\* C4 witness: lerp with t > 1 between finite vectors came out at a + (b - a), which is not b
C4_Witness ==
    /\ op = "lerp"
    /\ f32_lt(f1, s)
    /\ IsFinVec(v) /\ IsFinVec(w)
    /\ res.vec = add(v, sub(w, v))
    /\ ~eq(res.vec, w)

\* C5 as stated: for every t, each component of lerp(a, b, t) is between the
\* components of a and b, and the result is a + (b - a) * c for some c in [0, 1].
\* Stated for finite a and b and t not NaN, where it already fails; c ranges over
\* the drawn scalars, which hold clamp(t, 0, 1) for every drawn t.
C5_Original ==
    (op = "lerp" /\ IsFinVec(v) /\ IsFinVec(w) /\ ~IsNaN(s)) =>
        /\ Between(res.vec.x, v.x, w.x)
        /\ Between(res.vec.y, v.y, w.y)
        /\ \E c \in Scalars :
              f32_le(f0, c) /\ f32_le(c, f1) /\ res.vec = lerp_unclamped(v, w, c)

\* C5 amended: for every t that is not NaN, lerp(a, b, t) is a + (b - a) * c with
\* c = clamp(t, 0, 1) in [0, 1]; for finite a and b - a each component lies between
\* the component of a and that of a + (b - a) as computed in f32, the end of the
\* segment, which is b only up to the rounding of b - a.
C5_LerpSegment ==
    (op = "lerp" /\ ~IsNaN(s)) =>
        LET c == f32_clamp(s, f0, f1)
            far == add(v, sub(w, v))
        IN  /\ f32_le(f0, c) /\ f32_le(c, f1)
            /\ res.vec = lerp_unclamped(v, w, c)
            /\ (IsFinVec(v) /\ IsFinVec(sub(w, v))) =>
                  /\ Between(res.vec.x, v.x, far.x)
                  /\ Between(res.vec.y, v.y, far.y)

\* C5 witness: lerp strictly inside the segment: 0 < t < 1 between distinct finite vectors
C5_Witness ==
    /\ op = "lerp"
    /\ s = fHalf
    /\ v = one /\ w = new(f2, f2)
    /\ res.vec = new(F(0, 3, 0 - 1), F(0, 3, 0 - 1))

\* C7 as stated: a + b == b + a, a * b == b * a and s * a == a * s ==
\* new(s * a.x, s * a.y) for every field value, under the derived equality.
C7_Original ==
    /\ op = "add" => eq(res.vec, add(w, v))
    /\ op = "mul" => eq(res.vec, mul(w, v))
    /\ op = "f32_mul" =>
          /\ eq(res.vec, mul_f32(v, s))
          /\ eq(res.vec, new(f32_mul(s, v.x), f32_mul(s, v.y)))

\* C7 amended: a + b and b + a, a * b and b * a, s * a and a * s and
\* new(s * a.x, s * a.y) have the same components, so they compare equal under the
\* derived equality whenever no component of the result is NaN (a NaN component
\* is NaN on both sides and compares unequal to itself).
C7_Commutative ==
    /\ op = "add" =>
          /\ SameVec(res.vec, add(w, v))
          /\ ~HasNaN(res.vec) => eq(res.vec, add(w, v))
    /\ op = "mul" =>
          /\ SameVec(res.vec, mul(w, v))
          /\ ~HasNaN(res.vec) => eq(res.vec, mul(w, v))
    /\ op = "f32_mul" =>
          /\ SameVec(res.vec, mul_f32(v, s))
          /\ SameVec(res.vec, new(f32_mul(s, v.x), f32_mul(s, v.y)))
          /\ ~HasNaN(res.vec) => eq(res.vec, mul_f32(v, s))

\* C7 witness: a sum of two different vectors without NaN equal to the sum in the other order
C7_Witness ==
    /\ op = "add"
    /\ ~eq(v, w)
    /\ ~HasNaN(res.vec)
    /\ ~eq(res.vec, v)
    /\ eq(res.vec, add(w, v))

(***************************************************************************)
(* Properties of the mutating operations and of indexing (under SpecMut)   *)
(***************************************************************************)
\* C1: v[0] reads x and v[1] reads y; v[i] = c sets exactly that field; with any
\* other index the read and the write panic, return no value and leave v as it was.
C1_Indexing ==
    /\ (op = "index" /\ idx = 0) => (pc = "ready" /\ res = ResF32(v.x) /\ v = old)
    /\ (op = "index" /\ idx = 1) => (pc = "ready" /\ res = ResF32(v.y) /\ v = old)
    /\ (op = "index_mut" /\ idx = 0) => (pc = "ready" /\ v.x = s /\ v.y = old.y)
    /\ (op = "index_mut" /\ idx = 1) => (pc = "ready" /\ v.y = s /\ v.x = old.x)
    /\ (op \in {"index", "index_mut"} /\ idx >= 2)
          => (pc = "panicked" /\ res = ResPanic /\ v = old)
    /\ pc = "panicked" => (op \in {"index", "index_mut"} /\ idx >= 2)

\* C1 witness: a write through index 2 panicked, with a value that differs from both fields
C1_Witness ==
    /\ op = "index_mut"
    /\ idx = 2
    /\ pc = "panicked"
    /\ s # v.x /\ s # v.y
    /\ v = old

\* C6 as stated: for every vector, normalize leaves v / magnitude(v), of unit
\* length, when magnitude(v) > 1e-5 and zero otherwise. Unit length is read up to
\* rounding (within 2^-21 of 1) and the vector as finite, where it already fails.
C6_Original ==
    (op = "normalize" /\ IsFinVec(old)) =>
        LET num == magnitude(old)
        IN  IF f32_gt(num, NormalizeEps)
            THEN /\ v = div_f32(old, num)
                 /\ f32_le(NearOneLo, magnitude(v))
                 /\ f32_le(magnitude(v), NearOneHi)
            ELSE v = zero

\* C6 amended: normalize leaves v / magnitude(v) when magnitude(v) > 1e-5 and
\* zero otherwise (strictly: (0, 0.00001), of magnitude exactly 1e-5, and the zero
\* vector become (0, 0) with no division); the quotient keeps the signs of the
\* fields and, when magnitude(v) is finite, has length 1 up to rounding (within
\* 2^-21), (1, 1) giving (sqrt(0.5), sqrt(0.5)).
C6_Normalize ==
    op = "normalize" =>
        LET num == magnitude(old)
        IN  /\ f32_gt(num, NormalizeEps) =>
                /\ v = div_f32(old, num)
                /\ IsFin(num) =>
                      /\ f32_le(NearOneLo, magnitude(v))
                      /\ f32_le(magnitude(v), NearOneHi)
                      /\ v.x.s = old.x.s
                      /\ v.y.s = old.y.s
            /\ ~f32_gt(num, NormalizeEps) => v = zero
            /\ old = new(f0, NormalizeEps) => (num = NormalizeEps /\ v = zero)
            /\ old = zero => v = zero
            /\ old = one => v = new(f32_sqrt(fHalf), f32_sqrt(fHalf))

\* C6 witness: normalize met a vector of magnitude exactly 1e-5 and left zero
C6_Witness ==
    /\ op = "normalize"
    /\ old = new(f0, NormalizeEps)
    /\ magnitude(old) = NormalizeEps
    /\ v = zero

\* C8: after scale(w) or v *= w the vector is (old v) * w, after v *= c it is
\* (old v) * c, after v /= c it is (old v) / c (field for field the same f32, a NaN
\* where the operator gives a NaN), and w is not changed.
C8_InPlace ==
    /\ [](/\ op \in {"scale", "mul_assign"} => v = mul(old, w)
          /\ op = "mul_assign_f32" => v = mul_f32(old, s)
          /\ op = "div_assign_f32" => v = div_f32(old, s))
    /\ [][op' \in {"scale", "mul_assign", "mul_assign_f32", "div_assign_f32"}
            => (w' = w /\ old' = v)]_vars

\* C8 witness: scale by a vector with different fields changed both fields
C8_Witness ==
    /\ op = "scale"
    /\ old = new(f3, f4)
    /\ w = new(f3, f4)
    /\ v = new(F(0, 9, 0), F(0, 16, 0))

\* C9: a vector built by new(x, y) or changed by set(x, y) reads back x and y
\* through .x, .y, [0] and [1]; and no operation on v changes w or the copy of v
\* taken before.
C9_Independent ==
    /\ [](op \in {"new", "set"} =>
            /\ v.x = s
            /\ v.y = s2
            /\ index(v, 0) = [panic |-> FALSE, val |-> s]
            /\ index(v, 1) = [panic |-> FALSE, val |-> s2])
    /\ [](op = "new" => copy = v)
    /\ [][w' = w /\ copy' = copy]_vars

\* C9 witness: v was set and then changed again while the copy kept the value v started with
C9_Witness ==
    /\ op = "set"
    /\ n = 2
    /\ s = f1 /\ s2 = f2
    /\ v = new(f1, f2)
    /\ copy = new(f3, f4)
    /\ copy # v

(***************************************************************************)
(* Properties of the move_towards loop (under SpecMove)                    *)
(***************************************************************************)
\* C10 as stated: with a fixed step delta > 0 between finite points a step never
\* increases the distance to target, current reaches target after finitely many
\* steps (so a step taken before arrival moves current), and once at target it
\* stays there, for every delta. Stated for a finite distance, where it already
\* fails.
C10_Original ==
    [][(op' = "move_towards" /\ IsFin(Dist(w, v))) =>
          /\ f32_gt(delta, f0) => f32_le(Dist(w, v'), Dist(w, v))
          /\ (f32_gt(delta, f0) /\ ~eq(v, w)) => ~eq(v', v)
          /\ eq(v, w) => v' = w]_vars

\* C10 amended: with a fixed step delta > 0 between finite points a step never
\* increases the distance to target, lands on target exactly when dist <= delta
\* ((0,0) -> (1,1) by 0.5 arrives with the third step), and once at target it
\* stays there, for every delta (also <= 0 or NaN); arrival after finitely many
\* steps is not promised: a step below the resolution of current's fields leaves
\* current where it is.
C10_Iteration ==
    /\ [][op' = "move_towards" =>
            /\ f32_gt(delta, f0) => ~f32_gt(Dist(w, v'), Dist(w, v))
            /\ (f32_gt(delta, f0) /\ IsFin(Dist(w, v))) => f32_le(Dist(w, v'), Dist(w, v))
            /\ f32_le(Dist(w, v), delta) => v' = w
            /\ v = w => v' = w]_vars
    /\ []((copy = zero /\ w = one /\ delta = fHalf) => (v = w <=> n >= 3))

\* C10 witness: the loop arrived at a target it did not start on and then took another step
C10_Witness ==
    /\ op = "move_towards"
    /\ copy = zero /\ w = one /\ delta = fHalf
    /\ n = 4
    /\ old = w
    /\ v = w

====
